---- MODULE Spec2Model ----
(***************************************************************************)
(* A model of the stdio tool server of                                     *)
(* src/mcp-servers/jupyter-notebook-mcp/main.py: the main loop, the        *)
(* request dispatch of JupyterMCPServer, the notebook store, and the child *)
(* processes and temporary files of the tools that run code.               *)
(***************************************************************************)
EXTENDS Integers, Sequences, FiniteSets, TLC

\* ---------------------------------------------------------------- bounds
\* Lines input() returns before the stream ends.
MaxLines == 3
\* Values uuid.uuid4() can return in one run.
MaxNotebooks == 2

\* ------------------------------------------------------ program constants
\* subprocess.run(..., timeout=30) in execute_cell.
ExecuteTimeoutSeconds == 30
\* subprocess.run(..., timeout=60) in install_package.
InstallTimeoutSeconds == 60

\* ------------------------------------------------------------ input values
Ids == 1..MaxNotebooks
\* Identifiers a client may send: every uuid, and one that is never issued.
RefIds == 1..(MaxNotebooks + 1)
\* None, as args.get("notebook_id") returns it for a missing key.
None == 0

\* A notebook name is a sequence of text pieces, so that ".ipynb" inside a
\* name is visible to str.replace.
Names == {<<"demo">>, <<"a", ".ipynb">>}
\* A name that is an absolute path: the text /tmp/x.
AbsName == <<"/tmp", "/", "x">>
\* Directories: open(..., 'w') succeeds in the first, fails in the second.
WritableDirs == {"/tmp"}
Dirs == WritableDirs \cup {"/nodir"}

\* JSON values sent as "code": a string, and a number.
StrCode == [t |-> "str", v |-> "print(1)"]
IntCode == [t |-> "int", v |-> "5"]
Codes == {StrCode, IntCode}

Formats == {"py", "html", "pdf"}
\* call_tool without the branch for the last tool of the catalog.
ToolNamesShort == {"create_notebook", "execute_cell", "list_notebooks",
                   "export_notebook", "install_package"}
\* The names call_tool has a branch for.
ToolNames == {"create_notebook", "execute_cell", "list_notebooks",
              "export_notebook", "install_package", "create_visualization"}

\* The catalog list_tools returns: per tool its name, the properties of its
\* inputSchema, the required ones, and the property that has an enum with
\* the values the enum lists (enum_of is "" for a tool without one).
Catalog ==
  << [name |-> "create_notebook", properties |-> {"name", "path"},
      required |-> {"name"}, enum_of |-> "", enum |-> {}],
     [name |-> "execute_cell", properties |-> {"code", "notebook_id"},
      required |-> {"code"}, enum_of |-> "", enum |-> {}],
     [name |-> "list_notebooks", properties |-> {},
      required |-> {}, enum_of |-> "", enum |-> {}],
     [name |-> "export_notebook", properties |-> {"notebook_id", "format"},
      required |-> {"notebook_id", "format"}, enum_of |-> "format",
      enum |-> {"html", "pdf", "py"}],
     [name |-> "install_package", properties |-> {"package"},
      required |-> {"package"}, enum_of |-> "", enum |-> {}],
     [name |-> "create_visualization",
      properties |-> {"data", "chart_type", "title"},
      required |-> {"data", "chart_type"}, enum_of |-> "chart_type",
      enum |-> {"line", "bar", "scatter", "histogram", "heatmap"}] >>

\* The tool names a client learns from the catalog.
CatalogNames == {Catalog[i].name : i \in DOMAIN Catalog}

\* The "arguments" member of params.  shape is what JSON value it is; keys
\* the keys it holds when it is an object.
NoArgs ==
  [shape |-> "dict", keys |-> {}, name |-> <<>>, path |-> "/tmp",
   code |-> StrCode, notebook_id |-> None, format |-> "py",
   package |-> "numpy", data |-> "x = [1]", chart_type |-> "line"]

ArgSets ==
  {NoArgs, [NoArgs EXCEPT !.shape = "str"]}
  \cup {[NoArgs EXCEPT !.keys = {"name"}, !.name = n] : n \in Names}
  \cup {[NoArgs EXCEPT !.keys = {"name", "path"}, !.name = n, !.path = d] :
          n \in Names, d \in Dirs}
  \cup {[NoArgs EXCEPT !.keys = {"name", "path"}, !.name = AbsName,
                       !.path = "/nodir"]}
  \cup {[NoArgs EXCEPT !.keys = {"code"}, !.code = c] : c \in Codes}
  \cup {[NoArgs EXCEPT !.keys = {"notebook_id"}, !.notebook_id = 1]}
  \cup {[NoArgs EXCEPT !.keys = {"code", "notebook_id"}, !.code = c,
                       !.notebook_id = i] : c \in Codes, i \in RefIds}
  \cup {[NoArgs EXCEPT !.keys = {"format"}]}
  \cup {[NoArgs EXCEPT !.keys = {"notebook_id", "format"},
                       !.notebook_id = i, !.format = f] :
          i \in RefIds, f \in Formats}
  \cup {[NoArgs EXCEPT !.keys = {"package"}]}
  \cup {[NoArgs EXCEPT !.keys = {"data"}]}
  \cup {[NoArgs EXCEPT !.keys = {"data", "chart_type"}, !.chart_type = c] :
          c \in {"line", "pie"}}

\* Arguments of a create_visualization call that also names a notebook, a key
\* the handler does not read.
VizArgsWithId ==
  [NoArgs EXCEPT !.keys = {"data", "chart_type", "notebook_id"},
                 !.notebook_id = 1]

\* The keys a tool's handler reads, so that the lines offered for a tool
\* carry only arguments that tool looks at.
ReadKeys(tool) ==
  CASE tool = "create_notebook"      -> {"name", "path"}
    [] tool = "execute_cell"         -> {"code", "notebook_id"}
    [] tool = "export_notebook"      -> {"notebook_id", "format"}
    [] tool = "install_package"      -> {"package"}
    [] tool = "create_visualization" -> {"data", "chart_type"}
    [] OTHER                         -> {}

NoParams == [shape |-> "dict", keys |-> {}, name |-> "None", arguments |-> NoArgs]

ParamSets ==
  {NoParams, [NoParams EXCEPT !.shape = "null"]}
  \cup {[NoParams EXCEPT !.keys = {"name"}, !.name = t] :
          t \in CatalogNames \cup {"bogus"}}
  \cup UNION {{[NoParams EXCEPT !.keys = {"name", "arguments"}, !.name = t,
                                !.arguments = a] :
                  a \in {x \in ArgSets : x.keys \subseteq ReadKeys(t)}} :
                t \in CatalogNames}
  \cup {[NoParams EXCEPT !.keys = {"name", "arguments"},
                         !.name = "create_visualization",
                         !.arguments = VizArgsWithId]}

\* One line of standard input.  syntax is what the text of the line is:
\*   "empty"   the empty string
\*   "garbage" text the JSON parser rejects, such as not-json
\*   "deep"    brackets nested deeper than the parser's recursion limit
\*   "nan"     the text NaN
\*   "array"   a JSON array
\*   "object"  a JSON object, with the members given by keys
NoLine == [syntax |-> "empty", keys |-> {}, method |-> "None", params |-> NoParams]

Lines ==
  {[NoLine EXCEPT !.syntax = s] : s \in {"empty", "garbage", "deep", "nan", "array"}}
  \cup {[NoLine EXCEPT !.syntax = "object"]}
  \cup {[NoLine EXCEPT !.syntax = "object", !.keys = {"method"}, !.method = m] :
          m \in {"tools/list", "tools/call", "resources/list"}}
  \cup {[NoLine EXCEPT !.syntax = "object", !.keys = {"method", "params"},
                       !.method = "tools/call", !.params = p] : p \in ParamSets}

\* ------------------------------------------------------------------ state
VARIABLES
  pc,          \* where main is: "read" in input(), "handle" between input()
               \* and the handler, "wait" in subprocess.run, "done" after the loop
  line,        \* main's variable line: the last line input() returned
  nread,       \* how many lines input() has returned
  nwritten,    \* how many response lines print() has written to stdout
  response,    \* the last object written to stdout
  notebooks,   \* self.notebooks: id -> [name, path, cells]
  issued,      \* the values uuid.uuid4() has returned
  files,       \* the paths create_notebook and export_notebook have written
  temp_files,  \* how many files made by NamedTemporaryFile exist
  child,       \* the child process of subprocess.run
  exc,         \* the exception raised while handling line, "none" if none
  exec_calls,  \* per notebook id, the execute_cell calls answered so far that
               \* named it (named), and those of them answered with a
               \* {"content": ...} object (content)
  stdin,       \* how many lines standard input still holds
  alive,       \* how many child processes are alive
  answers,     \* which line, by its number, the last response answers
  written      \* what export_notebook wrote to its file for the line being
               \* handled: one section per cell, <<>> if it wrote no file

vars == <<pc, line, nread, nwritten, response, notebooks, issued, files,
          temp_files, child, exc, exec_calls, stdin, alive, answers,
          written>>

\* ------------------------------------------------------------- responses
\* A response object.  kind is its only key ("error", "content" or "tools");
\* fmt is the text with {} where the f-string puts a value; n, s and parts are
\* the values put there: a number, a string, and a text kept in pieces (a path,
\* or the output execute_cell composed).
Msg(kind, fmt, n, s, parts) ==
  [kind |-> kind, fmt |-> fmt, n |-> n, s |-> s, parts |-> parts]
Error(fmt, n, s) == Msg("error", fmt, n, s, <<>>)
Content(fmt, n, s, parts) == Msg("content", fmt, n, s, parts)
NoResponse == Msg("none", "", 0, "", <<>>)
\* {"tools": [...]}: the catalog, by how many tools it lists and their names.
ListTools ==
  Msg("tools", "catalog", Len(Catalog), "",
      [i \in DOMAIN Catalog |-> Catalog[i].name])

NoChild ==
  [state |-> "none", tool |-> "None", timeout |-> 0, spawns |-> 0, returncode |-> 0]

\* -------------------------------------------------------------- json.loads
\* What json.loads(line) does with each kind of text: it raises, or returns
\* a Python value of some type.  NaN is accepted and parsed as a float.
JsonLoads(l) ==
  CASE l.syntax = "garbage" -> [raises |-> "JSONDecodeError", type |-> "None"]
    [] l.syntax = "empty"   -> [raises |-> "JSONDecodeError", type |-> "None"]
    [] l.syntax = "deep"    -> [raises |-> "RecursionError", type |-> "None"]
    [] l.syntax = "nan"     -> [raises |-> "none", type |-> "float"]
    [] l.syntax = "array"   -> [raises |-> "none", type |-> "list"]
    [] l.syntax = "object"  -> [raises |-> "none", type |-> "dict"]

\* str(e) of the exceptions the model raises.
StrOf(e) ==
  CASE e = "RecursionError" -> "maximum recursion depth exceeded while decoding a JSON array from a unicode string"
    [] e = "AttributeError" -> "object has no attribute 'get'"
    [] e = "TypeError"      -> "string indices must be integers"
    [] e = "KeyError"       -> "'{}'"
    [] e = "WriteTypeError" -> "write() argument must be str, not int"
    [] e = "OSError"        -> "[Errno 2] No such file or directory"
    [] OTHER                -> ""

\* ---------------------------------------------------------- handle_request
\* request.get("method"), request.get("params", {})
Method(l) == IF "method" \in l.keys THEN l.method ELSE "None"
Params(l) == IF "params" \in l.keys THEN l.params ELSE NoParams
\* params.get("name"), params.get("arguments", {})
ToolName(l) == IF "name" \in Params(l).keys THEN Params(l).name ELSE "None"
Arguments(l) == IF "arguments" \in Params(l).keys THEN Params(l).arguments ELSE NoArgs

\* The branch of main, handle_request and call_tool that a line takes.
Route(l) ==
  IF JsonLoads(l).raises = "JSONDecodeError" THEN "InvalidJSON"
  ELSE IF JsonLoads(l).raises # "none" THEN "MainFault"
  ELSE IF JsonLoads(l).type # "dict" THEN "HandlerFault"
  ELSE IF Method(l) = "tools/list" THEN "tools/list"
  ELSE IF Method(l) = "tools/call" THEN
         IF Params(l).shape # "dict" THEN "HandlerFault"
         ELSE IF ToolName(l) \in ToolNames THEN ToolName(l)
         ELSE "UnknownTool"
  ELSE "UnknownMethod"

\* Handlers where create_visualization reads chart_type with args.get.
SubscriptsLax(tool) ==
  CASE tool = "create_notebook"      -> <<"name">>
    [] tool = "execute_cell"         -> <<"code">>
    [] tool = "list_notebooks"       -> <<>>
    [] tool = "export_notebook"      -> <<"notebook_id", "format">>
    [] tool = "install_package"      -> <<"package">>
    [] tool = "create_visualization" -> <<"data">>

\* The subscripts args[...] each handler evaluates before anything else, in
\* the order it evaluates them.
Subscripts(tool) ==
  CASE tool = "create_notebook"      -> <<"name">>
    [] tool = "execute_cell"         -> <<"code">>
    [] tool = "list_notebooks"       -> <<>>
    [] tool = "export_notebook"      -> <<"notebook_id", "format">>
    [] tool = "install_package"      -> <<"package">>
    [] tool = "create_visualization" -> <<"data", "chart_type">>

\* What those subscripts raise: TypeError when args is no dict, KeyError for
\* the first missing key, nothing otherwise.
LookupFault(tool, args) ==
  LET subs == Subscripts(tool)
      missing == {i \in 1..Len(subs) : subs[i] \notin args.keys}
      first == CHOOSE i \in missing : \A j \in missing : i <= j
  IN  IF subs = <<>> THEN [raises |-> "none", key |-> ""]
      ELSE IF args.shape # "dict" THEN [raises |-> "TypeError", key |-> ""]
      ELSE IF missing # {} THEN [raises |-> "KeyError", key |-> subs[first]]
      ELSE [raises |-> "none", key |-> ""]

\* A tool call whose handler gets past its subscripts.
Calls(l, tool) ==
  /\ Route(l) = tool
  /\ LookupFault(tool, Arguments(l)).raises = "none"

\* -------------------------------------------------------------------- main
Init ==
  /\ pc = "read"
  /\ line = NoLine
  /\ nread = 0
  /\ nwritten = 0
  /\ response = NoResponse
  /\ notebooks = <<>>
  /\ issued = {}
  /\ files = {}
  /\ temp_files = 0
  /\ child = NoChild
  /\ exc = "none"
  /\ exec_calls = [i \in Ids |-> [named |-> 0, content |-> 0]]
  /\ stdin \in 0..MaxLines
  /\ alive = 0
  /\ answers = 0
  /\ written = <<>>

\* print(json.dumps(r)); sys.stdout.flush(), and back to the top of the loop.
Write(r) ==
  /\ response' = r
  /\ nwritten' = nwritten + 1
  /\ answers' = nread
  /\ pc' = "read"

\* line = input() returns l, the next line of the stream.  An empty line
\* leaves the loop (if not line: break).  A create_notebook call is offered
\* only while uuid4 has a value left.
ReadLine ==
  /\ pc = "read"
  /\ stdin > 0
  /\ stdin' = stdin - 1
  /\ \E l \in Lines :
       /\ Calls(l, "create_notebook") => issued # Ids
       /\ line' = l
       /\ pc' = IF l.syntax = "empty" THEN "done" ELSE "handle"
  /\ nread' = nread + 1
  /\ exc' = "none"
  /\ child' = NoChild
  /\ written' = <<>>
  /\ UNCHANGED <<nwritten, response, notebooks, issued, files, temp_files,
                 exec_calls, alive, answers>>

\* input() raises EOFError at the end of the stream: break.
ReadEOF ==
  /\ pc = "read"
  /\ stdin = 0
  /\ pc' = "done"
  /\ exc' = "EOFError"
  /\ UNCHANGED <<line, nread, nwritten, response, notebooks, issued, files,
                 temp_files, child, exec_calls>>
  /\ UNCHANGED <<stdin, alive, answers>>
  /\ written' = written

\* InvalidJSON as it would be with "continue" in place of the print.
InvalidJSONSilent ==
  /\ pc = "handle"
  /\ Route(line) = "InvalidJSON"
  /\ exc' = "JSONDecodeError"
  /\ pc' = "read"
  /\ UNCHANGED <<line, nread, nwritten, response, notebooks, issued, files,
                 temp_files, child, exec_calls>>
  /\ UNCHANGED <<stdin, alive, answers>>
  /\ written' = written

\* InvalidJSON as it would be with the except clause resetting the server.
InvalidJSONReset ==
  /\ pc = "handle"
  /\ Route(line) = "InvalidJSON"
  /\ exc' = "JSONDecodeError"
  /\ Write(Error("Invalid JSON", 0, ""))
  /\ notebooks' = <<>>
  /\ UNCHANGED <<line, nread, issued, files, temp_files, child, exec_calls>>
  /\ UNCHANGED <<stdin, alive>>
  /\ written' = written

\* json.loads raises JSONDecodeError: main prints {"error": "Invalid JSON"}.
InvalidJSON ==
  /\ pc = "handle"
  /\ Route(line) = "InvalidJSON"
  /\ exc' = "JSONDecodeError"
  /\ Write(Error("Invalid JSON", 0, ""))
  /\ UNCHANGED <<line, nread, notebooks, issued, files, temp_files, child,
                 exec_calls>>
  /\ UNCHANGED <<stdin, alive>>
  /\ written' = written

\* A main without the last except clause: the exception ends the loop.
MainFaultUncaught ==
  /\ pc = "handle"
  /\ Route(line) = "MainFault"
  /\ exc' = JsonLoads(line).raises
  /\ pc' = "done"
  /\ UNCHANGED <<line, nread, nwritten, response, notebooks, issued, files,
                 temp_files, child, exec_calls>>
  /\ UNCHANGED <<stdin, alive, answers>>
  /\ written' = written

\* json.loads raises another exception: main's except Exception prints str(e).
MainFault ==
  /\ pc = "handle"
  /\ Route(line) = "MainFault"
  /\ exc' = JsonLoads(line).raises
  /\ Write(Error(StrOf(JsonLoads(line).raises), 0, ""))
  /\ UNCHANGED <<line, nread, notebooks, issued, files, temp_files, child,
                 exec_calls>>
  /\ UNCHANGED <<stdin, alive>>
  /\ written' = written

\* HandlerFault as it would be with no except clause on the way: the
\* exception ends main.
HandlerFaultUncaught ==
  /\ pc = "handle"
  /\ Route(line) = "HandlerFault"
  /\ exc' = "AttributeError"
  /\ pc' = "done"
  /\ UNCHANGED <<line, nread, nwritten, response, notebooks, issued, files,
                 temp_files, child, exec_calls>>
  /\ UNCHANGED <<stdin, alive, answers>>
  /\ written' = written

\* request.get or params.get raises AttributeError (the request is no dict,
\* or params is no dict): handle_request's except returns {"error": str(e)}.
HandlerFault ==
  /\ pc = "handle"
  /\ Route(line) = "HandlerFault"
  /\ exc' = "AttributeError"
  /\ Write(Error(StrOf("AttributeError"), 0, ""))
  /\ UNCHANGED <<line, nread, notebooks, issued, files, temp_files, child,
                 exec_calls>>
  /\ UNCHANGED <<stdin, alive>>
  /\ written' = written

\* list_tools that lists a tool more per notebook of the store.
ToolsListPerNotebook ==
  /\ pc = "handle"
  /\ Route(line) = "tools/list"
  /\ Write([ListTools EXCEPT !.n = @ + Cardinality(DOMAIN notebooks)])
  /\ UNCHANGED <<line, nread, notebooks, issued, files, temp_files, child, exc,
                 exec_calls>>
  /\ UNCHANGED <<stdin, alive>>
  /\ written' = written

\* list_tools: the catalog.
ToolsList ==
  /\ pc = "handle"
  /\ Route(line) = "tools/list"
  /\ Write(ListTools)
  /\ UNCHANGED <<line, nread, notebooks, issued, files, temp_files, child, exc,
                 exec_calls>>
  /\ UNCHANGED <<stdin, alive>>
  /\ written' = written

UnknownMethod ==
  /\ pc = "handle"
  /\ Route(line) = "UnknownMethod"
  /\ Write(Error("Unknown method: {}", 0, Method(line)))
  /\ UNCHANGED <<line, nread, notebooks, issued, files, temp_files, child, exc,
                 exec_calls>>
  /\ UNCHANGED <<stdin, alive>>
  /\ written' = written

UnknownTool ==
  /\ pc = "handle"
  /\ Route(line) = "UnknownTool"
  /\ Write(Error("Unknown tool: {}", 0, ToolName(line)))
  /\ UNCHANGED <<line, nread, notebooks, issued, files, temp_files, child, exc,
                 exec_calls>>
  /\ UNCHANGED <<stdin, alive>>
  /\ written' = written

\* A handler's args[...] raises KeyError or TypeError: call_tool's except
\* returns {"error": str(e)}.
ToolFault ==
  /\ pc = "handle"
  /\ Route(line) \in ToolNames
  /\ LET f == LookupFault(Route(line), Arguments(line)) IN
       /\ f.raises # "none"
       /\ exc' = f.raises
       /\ Write(Error(StrOf(f.raises), 0, f.key))
  /\ UNCHANGED <<line, nread, notebooks, issued, files, temp_files, child,
                 exec_calls>>
  /\ UNCHANGED <<stdin, alive>>
  /\ written' = written


\* ------------------------------------------------------------------ tools
\* Uuid4 as an identifier source that can return a value again.
Uuid4Reused == Ids

\* uuid.uuid4(): a value it has not returned before.  The values are opaque,
\* so which unused one it returns makes no difference: it is the smallest.
Uuid4 == {i \in Ids \ issued : \A j \in Ids \ issued : i <= j}

\* os.path.isabs, for a text kept in pieces: it begins with a "/".
IsAbs(name) == name # <<>> /\ name[1] \in Dirs \cup {"/"}

\* os.path.join(path, f"{name}.ipynb"): path is dropped when the second part
\* is absolute.
NotebookPath(path, name) ==
  IF IsAbs(name)
  THEN name \o <<".ipynb">>
  ELSE <<path, "/">> \o name \o <<".ipynb">>

\* open(p, 'w') succeeds when the directory of p can be written to.
CanOpen(p) == p[1] \in WritableDirs

\* create_notebook that assigns a new dict holding only the new record.
PutFresh(d, k, v) == [x \in {k} |-> v]

\* d[k] = v on a dict.
Put(d, k, v) == [x \in DOMAIN d \cup {k} |-> IF x = k THEN v ELSE d[x]]

\* create_notebook that stores the record before it writes the file.
CreateNotebookStoreFirst ==
  /\ pc = "handle"
  /\ Calls(line, "create_notebook")
  /\ LET args == Arguments(line)
         name == args.name
         path == IF "path" \in args.keys THEN args.path ELSE "/tmp"
         notebook_path == NotebookPath(path, name)
     IN  \E notebook_id \in Uuid4 :
           /\ issued' = issued \cup {notebook_id}
           /\ notebooks' = Put(notebooks, notebook_id,
                               [name |-> name, path |-> notebook_path,
                                cells |-> <<>>])
           /\ IF CanOpen(notebook_path)
              THEN /\ files' = files \cup {notebook_path}
                   /\ Write(Content("Notebook '{}' created successfully! ID: {} Path: {}",
                                    notebook_id, "", notebook_path))
                   /\ exc' = exc
              ELSE /\ exc' = "OSError"
                   /\ Write(Error("Failed to create notebook: {}", 0, StrOf("OSError")))
                   /\ files' = files
  /\ UNCHANGED <<line, nread, temp_files, child, exec_calls>>
  /\ UNCHANGED <<stdin, alive>>
  /\ written' = written

\* create_notebook, past args["name"].
CreateNotebook ==
  /\ pc = "handle"
  /\ Calls(line, "create_notebook")
  /\ LET args == Arguments(line)
         name == args.name
         path == IF "path" \in args.keys THEN args.path ELSE "/tmp"
         notebook_path == NotebookPath(path, name)
     IN  \E notebook_id \in Uuid4 :
           /\ issued' = issued \cup {notebook_id}
           /\ IF CanOpen(notebook_path)
              THEN /\ files' = files \cup {notebook_path}
                   /\ notebooks' = Put(notebooks, notebook_id,
                                       [name |-> name, path |-> notebook_path,
                                        cells |-> <<>>])
                   /\ Write(Content("Notebook '{}' created successfully! ID: {} Path: {}",
                                    notebook_id, "", notebook_path))
                   /\ exc' = exc
              ELSE /\ exc' = "OSError"
                   /\ Write(Error("Failed to create notebook: {}", 0, StrOf("OSError")))
                   /\ UNCHANGED <<files, notebooks>>
  /\ UNCHANGED <<line, nread, temp_files, child, exec_calls>>
  /\ UNCHANGED <<stdin, alive>>
  /\ written' = written

\* list_notebooks: the fixed text for an empty store, else one entry per record.
ListNotebooks ==
  /\ pc = "handle"
  /\ Calls(line, "list_notebooks")
  /\ IF DOMAIN notebooks = {}
     THEN Write(Content("No notebooks created yet. Use create_notebook to start.",
                        0, "", <<>>))
     ELSE Write(Content("# Jupyter Notebooks", Cardinality(DOMAIN notebooks), "", <<>>))
  /\ UNCHANGED <<line, nread, notebooks, issued, files, temp_files, child, exc,
                 exec_calls>>
  /\ UNCHANGED <<stdin, alive>>
  /\ written' = written

\* str.replace(old, new) on a text kept in pieces: every occurrence is replaced.
Replace(text, old, new) ==
  [i \in 1..Len(text) |-> IF text[i] = old THEN new ELSE text[i]]

\* NotFound as it would be without the membership test: the subscript
\* self.notebooks[notebook_id] raises KeyError and call_tool reports str(e).
NotFoundKeyError(notebook_id) == Error(StrOf("KeyError"), notebook_id, "")

\* {"error": f"Notebook {notebook_id} not found"}
NotFound(notebook_id) == Error("Notebook {} not found", notebook_id, "")

\* for i, cell in enumerate(cells, 0): the headers count from zero.
ExportSectionsFromZero(format_type, cells) ==
  [i \in 1..Len(cells) |->
     [header |-> i - 1, code |-> cells[i].code,
      output |-> IF format_type = "html" THEN cells[i].output ELSE <<>>]]

\* What the export loops put in the file: for i, cell in enumerate(cells, 1),
\* a section headed "Cell i" with the cell's code and, in the html form, its
\* output.
ExportSections(format_type, cells) ==
  [i \in 1..Len(cells) |->
     [header |-> i, code |-> cells[i].code,
      output |-> IF format_type = "html" THEN cells[i].output ELSE <<>>]]

\* export_notebook with a branch for every format the catalog lists.
SupportedAsListed(format_type) == format_type \in {"html", "pdf", "py"}

\* The formats export_notebook has a branch for.
Supported(format_type) == format_type \in {"py", "html"}

\* export_notebook that looks at the format before it looks up the notebook.
ExportNotebookFormatFirst ==
  /\ pc = "handle"
  /\ Calls(line, "export_notebook")
  /\ LET notebook_id == Arguments(line).notebook_id
         format_type == Arguments(line).format
         out_path == Replace(notebooks[notebook_id].path, ".ipynb",
                             IF format_type = "py" THEN ".py" ELSE ".html")
     IN  IF ~Supported(format_type)
         THEN /\ Write(Error("Export format '{}' not supported", 0, format_type))
              /\ UNCHANGED <<files, exc, written>>
         ELSE IF notebook_id \notin DOMAIN notebooks
         THEN /\ Write(NotFound(notebook_id))
              /\ UNCHANGED <<files, exc, written>>
         ELSE IF CanOpen(out_path)
              THEN /\ files' = files \cup {out_path}
                   /\ written' = ExportSections(format_type,
                                                notebooks[notebook_id].cells)
                   /\ Write(Content(IF format_type = "py"
                                    THEN "Notebook exported to Python script: {}"
                                    ELSE "Notebook exported to HTML: {}",
                                    0, "", out_path))
                   /\ exc' = exc
              ELSE /\ exc' = "OSError"
                   /\ Write(Error("Export failed: {}", 0, StrOf("OSError")))
                   /\ UNCHANGED <<files, written>>
  /\ UNCHANGED <<line, nread, notebooks, issued, temp_files, child, exec_calls>>
  /\ UNCHANGED <<stdin, alive>>

\* export_notebook, past args["notebook_id"] and args["format"].
ExportNotebook ==
  /\ pc = "handle"
  /\ Calls(line, "export_notebook")
  /\ LET notebook_id == Arguments(line).notebook_id
         format_type == Arguments(line).format
         out_path == Replace(notebooks[notebook_id].path, ".ipynb",
                             IF format_type = "py" THEN ".py" ELSE ".html")
     IN  IF notebook_id \notin DOMAIN notebooks
         THEN /\ Write(NotFound(notebook_id))
              /\ UNCHANGED <<files, exc, written>>
         ELSE IF Supported(format_type)
         THEN IF CanOpen(out_path)
              THEN /\ files' = files \cup {out_path}
                   /\ written' = ExportSections(format_type,
                                                notebooks[notebook_id].cells)
                   /\ Write(Content(IF format_type = "py"
                                    THEN "Notebook exported to Python script: {}"
                                    ELSE "Notebook exported to HTML: {}",
                                    0, "", out_path))
                   /\ exc' = exc
              ELSE /\ exc' = "OSError"
                   /\ Write(Error("Export failed: {}", 0, StrOf("OSError")))
                   /\ UNCHANGED <<files, written>>
         ELSE /\ Write(Error("Export format '{}' not supported", 0, format_type))
              /\ UNCHANGED <<files, exc, written>>
  /\ UNCHANGED <<line, nread, notebooks, issued, temp_files, child, exec_calls>>
  /\ UNCHANGED <<stdin, alive>>


\* -------------------------------------------------------- child processes
\* What a child process that ends leaves in the CompletedProcess: whether
\* stdout and stderr hold text, and the exit status.
ChildResults ==
  {[stdout |-> TRUE,  stderr |-> FALSE, returncode |-> 0],
   [stdout |-> FALSE, stderr |-> FALSE, returncode |-> 0],
   [stdout |-> FALSE, stderr |-> TRUE,  returncode |-> 1]}

\* subprocess.run starts the child (Popen) and waits for it.
Popen(tool, timeout) ==
  [state |-> "running", tool |-> tool, timeout |-> timeout,
   spawns |-> child.spawns + 1, returncode |-> 0]

\* A wait that reports the timeout and leaves the child running.
KillOnTimeoutLeaves(c) == c

\* subprocess.run when the wait times out: the child is killed and reaped,
\* and TimeoutExpired is raised.
KillOnTimeout(c) == [c EXCEPT !.state = "killed"]

\* The code create_visualization generates: always a string.
VizCode(args) == [t |-> "str", v |-> "import matplotlib.pyplot as plt"]

\* create_visualization that hands its own args on, with the code added.
ExecArgsPassThrough(l) ==
  IF Route(l) = "create_visualization"
  THEN [Arguments(l) EXCEPT !.keys = @ \cup {"code"},
                            !.code = VizCode(Arguments(l))]
  ELSE Arguments(l)

\* The args execute_cell runs with: its own, or {"code": viz_code} when
\* create_visualization calls it.
ExecArgs(l) ==
  IF Route(l) = "create_visualization"
  THEN [NoArgs EXCEPT !.keys = {"code"}, !.code = VizCode(Arguments(l))]
  ELSE Arguments(l)

\* args.get("notebook_id")
GetNotebookId(args) == IF "notebook_id" \in args.keys THEN args.notebook_id ELSE None

\* Output without the exit-code annotation.
OutputNoExitCode(result) ==
  LET o1 == IF result.stdout THEN <<"Output:">> ELSE <<>>
      o2 == IF result.stderr THEN o1 \o <<"Errors:">> ELSE o1
  IN  IF o2 = <<>> THEN <<"Code executed successfully (no output)">> ELSE o2

\* The output text execute_cell composes from a finished child.
Output(result) ==
  LET o1 == IF result.stdout THEN <<"Output:">> ELSE <<>>
      o2 == IF result.stderr THEN o1 \o <<"Errors:">> ELSE o1
      o3 == IF result.returncode # 0 THEN o2 \o <<"Exit code:">> ELSE o2
  IN  IF o3 = <<>> THEN <<"Code executed successfully (no output)">> ELSE o3

\* ExecutionCount counting from zero.
ExecutionCountFromZero(cells) == Len(cells)

\* len(self.notebooks[notebook_id]["cells"]) + 1
ExecutionCount(cells) == Len(cells) + 1

\* if notebook_id and notebook_id in self.notebooks
Resolves(notebook_id) == notebook_id # None /\ notebook_id \in DOMAIN notebooks

\* exec_calls after an execute_cell call that named notebook_id is answered.
Counted(notebook_id, content) ==
  IF Resolves(notebook_id)
  THEN [exec_calls EXCEPT ![notebook_id] =
          [named |-> @.named + 1,
           content |-> @.content + (IF content THEN 1 ELSE 0)]]
  ELSE exec_calls

\* execute_cell up to subprocess.run: the temporary file is made and written;
\* write() raises for code that is no string; else the child is started, or
\* starting it raises OSError.
ExecuteCell ==
  /\ pc = "handle"
  /\ Calls(line, "execute_cell") \/ Calls(line, "create_visualization")
  /\ temp_files' = temp_files + 1
  /\ \/ /\ ExecArgs(line).code.t # "str"
        /\ exc' = "TypeError"
        /\ Write(Error("Execution failed: {}", 0, StrOf("WriteTypeError")))
        /\ child' = child
        /\ exec_calls' = Counted(GetNotebookId(ExecArgs(line)), FALSE)
     \/ /\ ExecArgs(line).code.t = "str"
        /\ exc' = "OSError"
        /\ Write(Error("Execution failed: {}", 0, StrOf("OSError")))
        /\ child' = child
        /\ exec_calls' = Counted(GetNotebookId(ExecArgs(line)), FALSE)
     \/ /\ ExecArgs(line).code.t = "str"
        /\ child' = Popen("execute_cell", ExecuteTimeoutSeconds)
        /\ pc' = "wait"
        /\ UNCHANGED <<exc, response, nwritten, exec_calls, answers>>
  /\ alive' = IF child'.state = "running" THEN alive + 1 ELSE alive
  /\ UNCHANGED <<line, nread, notebooks, issued, files, stdin>>
  /\ written' = written

\* execute_cell where the notebooks share one cells list, so that the append
\* shows in every notebook.
ExecuteCellExitShared ==
  /\ pc = "wait"
  /\ child.tool = "execute_cell"
  /\ \E result \in ChildResults, removed \in BOOLEAN :
       LET args == ExecArgs(line)
           notebook_id == GetNotebookId(args)
           output == Output(result)
           cells == notebooks[notebook_id].cells
       IN  /\ child' = [child EXCEPT !.state = "exited",
                                     !.returncode = result.returncode]
           /\ temp_files' = temp_files - 1
           /\ IF removed
              THEN /\ exc' = "OSError"
                   /\ exec_calls' = Counted(notebook_id, FALSE)
                   /\ notebooks' = notebooks
                   /\ Write(Error("Execution failed: {}", 0, StrOf("OSError")))
              ELSE /\ exc' = exc
                   /\ exec_calls' = Counted(notebook_id, TRUE)
                   /\ notebooks' =
                        IF Resolves(notebook_id)
                        THEN [i \in DOMAIN notebooks |->
                                [notebooks[i] EXCEPT !.cells =
                                   Append(@,
                                          [code |-> args.code.v, output |-> output,
                                           execution_count |-> ExecutionCount(cells)])]]
                        ELSE notebooks
                   /\ Write(Content("# Code Execution Result: {} {}",
                                    0, args.code.v, output))
  /\ UNCHANGED <<line, nread, issued, files>>
  /\ alive' = alive - 1
  /\ stdin' = stdin
  /\ written' = written

\* execute_cell after the child has ended by itself: the temporary file is
\* unlinked, the output composed, the cell appended if the notebook resolves.
\* The code that ran may have removed the temporary file (it is the child's
\* own script): os.unlink then raises and except Exception answers.
ExecuteCellExit ==
  /\ pc = "wait"
  /\ child.tool = "execute_cell"
  /\ \E result \in ChildResults, removed \in BOOLEAN :
       LET args == ExecArgs(line)
           notebook_id == GetNotebookId(args)
           output == Output(result)
           cells == notebooks[notebook_id].cells
       IN  /\ child' = [child EXCEPT !.state = "exited",
                                     !.returncode = result.returncode]
           /\ temp_files' = temp_files - 1
           /\ IF removed
              THEN /\ exc' = "OSError"
                   /\ exec_calls' = Counted(notebook_id, FALSE)
                   /\ notebooks' = notebooks
                   /\ Write(Error("Execution failed: {}", 0, StrOf("OSError")))
              ELSE /\ exc' = exc
                   /\ exec_calls' = Counted(notebook_id, TRUE)
                   /\ notebooks' =
                        IF Resolves(notebook_id)
                        THEN [notebooks EXCEPT ![notebook_id].cells =
                                Append(cells,
                                       [code |-> args.code.v, output |-> output,
                                        execution_count |-> ExecutionCount(cells)])]
                        ELSE notebooks
                   /\ Write(Content("# Code Execution Result: {} {}",
                                    0, args.code.v, output))
  /\ UNCHANGED <<line, nread, issued, files>>
  /\ alive' = alive - 1
  /\ stdin' = stdin
  /\ written' = written

\* ExecuteCellTimeout as it would be without the except TimeoutExpired clause:
\* except Exception reports the timeout as a failed execution.
ExecuteCellTimeoutGeneric ==
  /\ pc = "wait"
  /\ child.tool = "execute_cell"
  /\ child' = KillOnTimeout(child)
  /\ exc' = "TimeoutExpired"
  /\ Write(Error("Execution failed: {}", 0, "timed out after 30 seconds"))
  /\ exec_calls' = Counted(GetNotebookId(ExecArgs(line)), FALSE)
  /\ UNCHANGED <<line, nread, notebooks, issued, files, temp_files>>
  /\ alive' = IF child'.state = "running" THEN alive ELSE alive - 1
  /\ stdin' = stdin
  /\ written' = written

\* execute_cell that records the run that timed out as a cell.
ExecuteCellTimeoutRecorded ==
  /\ pc = "wait"
  /\ child.tool = "execute_cell"
  /\ child' = KillOnTimeout(child)
  /\ exc' = "TimeoutExpired"
  /\ Write(Error("Code execution timed out ({}s limit)", 30, ""))
  /\ exec_calls' = Counted(GetNotebookId(ExecArgs(line)), FALSE)
  /\ LET notebook_id == GetNotebookId(ExecArgs(line))
         cells == notebooks[notebook_id].cells
     IN  notebooks' =
           IF Resolves(notebook_id)
           THEN [notebooks EXCEPT ![notebook_id].cells =
                   Append(cells,
                          [code |-> ExecArgs(line).code.v,
                           output |-> <<"Errors:">>,
                           execution_count |-> ExecutionCount(cells)])]
           ELSE notebooks
  /\ UNCHANGED <<line, nread, issued, files, temp_files>>
  /\ alive' = IF child'.state = "running" THEN alive ELSE alive - 1
  /\ stdin' = stdin
  /\ written' = written

\* execute_cell when subprocess.run raises TimeoutExpired.
ExecuteCellTimeout ==
  /\ pc = "wait"
  /\ child.tool = "execute_cell"
  /\ child' = KillOnTimeout(child)
  /\ exc' = "TimeoutExpired"
  /\ Write(Error("Code execution timed out ({}s limit)", 30, ""))
  /\ exec_calls' = Counted(GetNotebookId(ExecArgs(line)), FALSE)
  /\ UNCHANGED <<line, nread, notebooks, issued, files, temp_files>>
  /\ alive' = IF child'.state = "running" THEN alive ELSE alive - 1
  /\ stdin' = stdin
  /\ written' = written

\* install_package up to subprocess.run: the child is started, or starting
\* it raises OSError.
InstallPackage ==
  /\ pc = "handle"
  /\ Calls(line, "install_package")
  /\ \/ /\ exc' = "OSError"
        /\ Write(Error("Installation failed: {}", 0, StrOf("OSError")))
        /\ child' = child
     \/ /\ child' = Popen("install_package", InstallTimeoutSeconds)
        /\ pc' = "wait"
        /\ UNCHANGED <<exc, response, nwritten, answers>>
  /\ alive' = IF child'.state = "running" THEN alive + 1 ELSE alive
  /\ UNCHANGED <<line, nread, notebooks, issued, files, temp_files, exec_calls,
                 stdin>>
  /\ written' = written

\* install_package after pip has ended by itself.
InstallPackageExit ==
  /\ pc = "wait"
  /\ child.tool = "install_package"
  /\ \E result \in ChildResults :
       /\ child' = [child EXCEPT !.state = "exited",
                                 !.returncode = result.returncode]
       /\ IF result.returncode = 0
          THEN Write(Content("Package '{}' installed successfully! Output: {}",
                             0, Arguments(line).package, <<>>))
          ELSE Write(Error("Failed to install {}: {}", 0, Arguments(line).package))
  /\ UNCHANGED <<line, nread, notebooks, issued, files, temp_files, exc,
                 exec_calls>>
  /\ alive' = alive - 1
  /\ stdin' = stdin
  /\ written' = written

\* InstallPackageTimeout as it would be with a retry: pip is started again.
InstallPackageTimeoutRetry ==
  /\ pc = "wait"
  /\ child.tool = "install_package"
  /\ child' = Popen("install_package", InstallTimeoutSeconds)
  /\ UNCHANGED <<pc, line, nread, nwritten, response, notebooks, issued, files,
                 temp_files, exc, exec_calls>>
  /\ alive' = alive
  /\ UNCHANGED <<stdin, answers>>
  /\ written' = written

\* install_package when subprocess.run raises TimeoutExpired.
InstallPackageTimeout ==
  /\ pc = "wait"
  /\ child.tool = "install_package"
  /\ child' = KillOnTimeout(child)
  /\ exc' = "TimeoutExpired"
  /\ Write(Error("Package installation timed out", 0, ""))
  /\ UNCHANGED <<line, nread, notebooks, issued, files, temp_files, exec_calls>>
  /\ alive' = IF child'.state = "running" THEN alive ELSE alive - 1
  /\ stdin' = stdin
  /\ written' = written

\* ---------------------------------------------------------- specification
Next ==
  \/ ReadLine
  \/ ReadEOF
  \/ InvalidJSON
  \/ MainFault
  \/ HandlerFault
  \/ ToolsList
  \/ UnknownMethod
  \/ UnknownTool
  \/ ToolFault
  \/ CreateNotebook
  \/ ListNotebooks
  \/ ExportNotebook
  \/ ExecuteCell
  \/ ExecuteCellExit
  \/ ExecuteCellTimeout
  \/ InstallPackage
  \/ InstallPackageExit
  \/ InstallPackageTimeout

Spec == Init /\ [][Next]_vars

\* The requests that write or read notebooks.  Every other request leaves
\* the store and its files as they are, so a run of these requests, one line
\* longer than the runs of Spec, reaches the notebooks any run reaches.
NotebookLines ==
  {l \in Lines : \/ Calls(l, "create_notebook") /\ "path" \notin Arguments(l).keys
                 \/ Calls(l, "execute_cell") /\ "notebook_id" \in Arguments(l).keys
                 \/ Calls(l, "export_notebook") /\ Supported(Arguments(l).format)}

InitNotebooks ==
  /\ pc = "read"
  /\ line = NoLine
  /\ nread = 0
  /\ nwritten = 0
  /\ response = NoResponse
  /\ notebooks = <<>>
  /\ issued = {}
  /\ files = {}
  /\ temp_files = 0
  /\ child = NoChild
  /\ exc = "none"
  /\ exec_calls = [i \in Ids |-> [named |-> 0, content |-> 0]]
  /\ stdin \in 0..(MaxLines + 1)
  /\ alive = 0
  /\ answers = 0
  /\ written = <<>>

ReadNotebookLine ==
  /\ pc = "read"
  /\ stdin > 0
  /\ stdin' = stdin - 1
  /\ \E l \in NotebookLines :
       /\ Calls(l, "create_notebook") => issued # Ids
       /\ line' = l
       /\ pc' = "handle"
  /\ nread' = nread + 1
  /\ exc' = "none"
  /\ child' = NoChild
  /\ written' = <<>>
  /\ UNCHANGED <<nwritten, response, notebooks, issued, files, temp_files,
                 exec_calls, alive, answers>>

NextNotebooks ==
  \/ ReadNotebookLine
  \/ ReadEOF
  \/ CreateNotebook
  \/ ExportNotebook
  \/ ExecuteCell
  \/ ExecuteCellExit
  \/ ExecuteCellTimeout

NotebookSpec == InitNotebooks /\ [][NextNotebooks]_vars

\* main never stops between two steps: input() returns once the stream has a
\* line or has ended, a handler runs to its return, and subprocess.run returns
\* when the child exits or the timeout passes.
FairSpec == Spec /\ WF_vars(Next)


\* ------------------------------------------------------------- properties
\* The last line read has been dealt with: main is back in input(), or out
\* of the loop.
Answered == nread > 0 /\ pc \in {"read", "done"}

\* A line whose text is JSON (RFC 8259): NaN is not, the empty text is not.
ValidJSON(l) == l.syntax \in {"array", "object", "deep"}

\* C1, as claimed: every line read has exactly one response written, and it
\* is written before the next line is read.
C1_OneResponsePerLine ==
  nwritten = IF pc \in {"handle", "wait"} THEN nread - 1 ELSE nread

\* C1, amended: every non-empty line read has exactly one response written,
\* before the next line is read; an empty line has none and ends the loop.
C1_OneResponsePerNonEmptyLine ==
  /\ pc \in {"handle", "wait"} => nwritten = nread - 1
  /\ pc = "read" => nwritten = nread
  /\ pc = "done" =>
       nwritten = IF exc = "EOFError" THEN nread ELSE nread - 1
  /\ (pc = "done" /\ exc # "EOFError") => line.syntax = "empty"

C1_Witness ==
  pc = "read" /\ nread = 2 /\ nwritten = 2 /\ child.state = "exited"

\* C2: between two requests no temporary file of execute_cell exists.
C2_NoTempFileBetweenRequests ==
  pc \in {"read", "done"} => temp_files = 0

\* C3, as claimed: a notebook named by N answered execute_cell calls has N
\* cells, the K-th with execution_count K, however the calls ended.
C3_CellPerCall ==
  \A id \in DOMAIN notebooks :
    /\ Len(notebooks[id].cells) = exec_calls[id].named
    /\ \A k \in 1..Len(notebooks[id].cells) :
         notebooks[id].cells[k].execution_count = k

\* C3, amended: a notebook named by N execute_cell calls that were answered
\* with a {"content": ...} object has N cells, the K-th with execution_count
\* K; the calls answered with an error (a timeout, a failure to write, launch
\* or clean up) added none.
C3_CellPerCompletedCall ==
  \A id \in DOMAIN notebooks :
    /\ Len(notebooks[id].cells) = exec_calls[id].content
    /\ \A k \in 1..Len(notebooks[id].cells) :
         notebooks[id].cells[k].execution_count = k

C3_Witness ==
  \E id \in DOMAIN notebooks :
    /\ Len(notebooks[id].cells) = 2
    /\ exec_calls[id].named = 2

\* C4: a request whose handling raises an exception is answered with an
\* {"error": ...} object and main is back in input(), not out of the loop.
C4_FaultsAnswered ==
  exc \notin {"none", "EOFError"} =>
    (pc = "read" /\ response.kind = "error" /\ nwritten = nread)

C4_Witness ==
  /\ pc = "read"
  /\ exc = "AttributeError"
  /\ JsonLoads(line).type = "list"
  /\ nread < MaxLines

\* What C5 says of a step that answers the line l: the answer is
\* {"error": "Invalid JSON"}, and nothing a later request reads has changed.
AnsweredInvalid ==
  /\ pc' = "read"
  /\ nwritten' = nwritten + 1
  /\ response' = Error("Invalid JSON", 0, "")
  /\ UNCHANGED <<notebooks, issued, files, temp_files>>

\* C5, as claimed: a line that is not valid JSON is taken up, answered with
\* {"error": "Invalid JSON"}, and leaves the store and all else the next
\* request reads as they were.
C5_InvalidLineAnswered ==
  [][/\ (pc = "read" /\ nread' = nread + 1 /\ ~ValidJSON(line')) => pc' = "handle"
     /\ (pc = "handle" /\ ~ValidJSON(line)) => AnsweredInvalid]_vars

\* C5, amended: a non-empty line that json.loads rejects with JSONDecodeError
\* is taken up, answered with {"error": "Invalid JSON"}, and leaves the store
\* and all else the next request reads as they were.
C5_RejectedLineAnswered ==
  [][/\ (pc = "read" /\ nread' = nread + 1 /\ line'.syntax # "empty"
           /\ JsonLoads(line').raises = "JSONDecodeError") => pc' = "handle"
     /\ (pc = "handle" /\ JsonLoads(line).raises = "JSONDecodeError")
          => AnsweredInvalid]_vars

C5_Witness ==
  /\ pc = "read"
  /\ exc = "JSONDecodeError"
  /\ line.syntax = "garbage"
  /\ response = Error("Invalid JSON", 0, "")
  /\ DOMAIN notebooks # {}

\* C6: an execute_cell call whose child outlives the limit is answered with
\* "Code execution timed out (30s limit)", and the child no longer runs then.
C6_TimeoutReported ==
  (exc = "TimeoutExpired" /\ child.tool = "execute_cell") =>
    /\ pc = "read"
    /\ response = Error("Code execution timed out ({}s limit)", 30, "")
    /\ child.state = "killed"

C6_Witness ==
  /\ exc = "TimeoutExpired"
  /\ child.tool = "execute_cell"
  /\ child.timeout = 30
  /\ Route(line) = "execute_cell"

\* A tool call that failed to start its child process.
LaunchFailed(tool) ==
  Calls(line, tool) /\ exc = "OSError" /\ child.state = "none"

\* C7, as claimed: each tool that waits on a child reports a timeout as
\* "Code execution timed out (Ns limit)", N its limit, and a failure to launch
\* as a generic failure (whatever its wording), and starts the child once.
C7_TimeoutNamesLimit ==
  /\ exc = "TimeoutExpired" =>
       response = Error("Code execution timed out ({}s limit)", child.timeout, "")
  /\ (LaunchFailed("execute_cell") \/ LaunchFailed("install_package")) =>
       /\ response.kind = "error"
       /\ response.fmt \in {"Execution failed: {}", "Installation failed: {}"}
  /\ child.spawns <= 1

\* C7, amended: execute_cell reports a timeout as "Code execution timed out
\* (30s limit)" and a failure to launch as "Execution failed: ...";
\* install_package reports them as "Package installation timed out" and
\* "Installation failed: ..."; neither starts its child a second time.
C7_TimeoutPerTool ==
  /\ (exc = "TimeoutExpired" /\ child.tool = "execute_cell") =>
       (child.timeout = 30 /\
        response = Error("Code execution timed out ({}s limit)", 30, ""))
  /\ (exc = "TimeoutExpired" /\ child.tool = "install_package") =>
       (child.timeout = 60 /\ response = Error("Package installation timed out", 0, ""))
  /\ LaunchFailed("execute_cell") =>
       response = Error("Execution failed: {}", 0, StrOf("OSError"))
  /\ LaunchFailed("install_package") =>
       response = Error("Installation failed: {}", 0, StrOf("OSError"))
  /\ child.spawns <= 1

C7_Witness ==
  /\ exc = "TimeoutExpired"
  /\ child.tool = "install_package"
  /\ child.state = "killed"
  /\ child.spawns = 1

\* A child process has ended by itself with a nonzero exit status, and the
\* call has been answered.
NonzeroExit == pc = "read" /\ child.state = "exited" /\ child.returncode # 0

\* C8, as claimed: a nonzero exit status of a child is never answered with an
\* {"error": ...} object, but as text in a {"content": ...} object.
C8_NonzeroExitIsContent ==
  NonzeroExit => response.kind = "content"

\* C8, amended: execute_cell and create_visualization answer a nonzero exit
\* status with a {"content": ...} object whose text carries the exit code,
\* unless unlinking the temporary file raised; install_package answers a
\* nonzero exit status with {"error": "Failed to install ..."}.
C8_NonzeroExitPerTool ==
  /\ (NonzeroExit /\ child.tool = "execute_cell" /\ exc = "none") =>
       /\ response.kind = "content"
       /\ \E i \in 1..Len(response.parts) : response.parts[i] = "Exit code:"
  /\ (NonzeroExit /\ child.tool = "install_package") =>
       response = Error("Failed to install {}: {}", 0, Arguments(line).package)

C8_Witness ==
  /\ NonzeroExit
  /\ Route(line) = "create_visualization"
  /\ response.kind = "content"

\* The step writes the answer of a create_notebook call that made a notebook.
Created ==
  /\ nwritten' = nwritten + 1
  /\ response'.fmt = "Notebook '{}' created successfully! ID: {} Path: {}"

\* C9: the identifier a create_notebook call returns was never returned
\* before and is no key of the store, and the call adds one record and leaves
\* the other records as they are; every key of the store came from uuid4.
C9_DistinctIds ==
  /\ [](DOMAIN notebooks \subseteq issued)
  /\ [][Created =>
          /\ response'.n \notin issued
          /\ response'.n \notin DOMAIN notebooks
          /\ DOMAIN notebooks' = DOMAIN notebooks \cup {response'.n}
          /\ \A i \in DOMAIN notebooks : notebooks'[i] = notebooks[i]]_vars

C9_Witness ==
  /\ Cardinality(DOMAIN notebooks) = 2
  /\ response.kind = "content"
  /\ response.n \in DOMAIN notebooks
  /\ \E i \in DOMAIN notebooks : i # response.n

\* The last call, to tool, carried a notebook_id that is no key of the store.
NamesUnknown(tool) ==
  /\ Answered
  /\ Route(line) = tool
  /\ Arguments(line).shape = "dict"
  /\ "notebook_id" \in Arguments(line).keys
  /\ Arguments(line).notebook_id \notin DOMAIN notebooks

\* C10, as claimed: an export_notebook or execute_cell call that carries its
\* required arguments and a notebook_id not in the store is answered
\* "Notebook <id> not found".
C10_UnknownIdReported ==
  \A tool \in {"export_notebook", "execute_cell"} :
    (NamesUnknown(tool) /\ Calls(line, tool)) =>
      response = Error("Notebook {} not found", Arguments(line).notebook_id, "")

\* C10, amended: an export_notebook call that carries a format and a
\* notebook_id not in the store is answered "Notebook <id> not found";
\* an execute_cell call that carries such a notebook_id is not: it is
\* answered as it would be with no notebook_id.
C10_UnknownIdReportedByExport ==
  /\ (NamesUnknown("export_notebook") /\ "format" \in Arguments(line).keys) =>
       response = Error("Notebook {} not found", Arguments(line).notebook_id, "")
  /\ NamesUnknown("execute_cell") =>
       response.fmt \in {"'{}'", "Execution failed: {}",
                         "Code execution timed out ({}s limit)",
                         "# Code Execution Result: {} {}"}

C10_Witness ==
  /\ NamesUnknown("export_notebook")
  /\ "format" \in Arguments(line).keys
  /\ Arguments(line).format = "pdf"
  /\ DOMAIN notebooks # {}
  /\ response.kind = "error"

\* An export_notebook call that carries both of its arguments is being handled.
Exporting == pc = "handle" /\ Calls(line, "export_notebook")

\* C11: an export_notebook call whose notebook_id is not in the store is
\* answered "Notebook <id> not found" whatever its format, supported or not,
\* and the step writes no file and leaves the store as it was.
C11_UnknownIdBeforeFormat ==
  [][(Exporting /\ Arguments(line).notebook_id \notin DOMAIN notebooks) =>
       /\ response' = Error("Notebook {} not found",
                            Arguments(line).notebook_id, "")
       /\ nwritten' = nwritten + 1
       /\ files' = files
       /\ notebooks' = notebooks]_vars

C11_Witness ==
  /\ NamesUnknown("export_notebook")
  /\ Calls(line, "export_notebook")
  /\ Arguments(line).format = "html"
  /\ DOMAIN notebooks # {}
  /\ response = Error("Notebook {} not found", Arguments(line).notebook_id, "")

\* C12: an export_notebook call that names a notebook of the store and a
\* format other than "py" and "html" is answered "Export format '<format>'
\* not supported", and the step writes no file and leaves the store as it was.
C12_UnsupportedFormatRejected ==
  [][(/\ Exporting
      /\ Arguments(line).notebook_id \in DOMAIN notebooks
      /\ Arguments(line).format \notin {"py", "html"}) =>
       /\ response' = Error("Export format '{}' not supported", 0,
                            Arguments(line).format)
       /\ nwritten' = nwritten + 1
       /\ files' = files
       /\ notebooks' = notebooks]_vars

C12_Witness ==
  /\ Answered
  /\ Calls(line, "export_notebook")
  /\ Arguments(line).notebook_id \in DOMAIN notebooks
  /\ Arguments(line).format = "pdf"
  /\ response = Error("Export format '{}' not supported", 0, "pdf")

\* The arguments the catalog marks as required for a tool.
RequiredOf(tool) ==
  UNION {Catalog[i].required : i \in {j \in DOMAIN Catalog : Catalog[j].name = tool}}

\* The line is a tools/call for a tool of call_tool whose arguments object
\* lacks a required argument.
OmitsRequired ==
  /\ Route(line) \in ToolNames
  /\ Arguments(line).shape = "dict"
  /\ RequiredOf(Route(line)) \ Arguments(line).keys # {}

\* C13: a tools/call that omits a required argument is answered with an
\* error object, and handling it spawns no child process, creates no file
\* and leaves the store as it was.
C13_MissingArgumentNoEffect ==
  [][(pc = "handle" /\ OmitsRequired) =>
       /\ response'.kind = "error"
       /\ nwritten' = nwritten + 1
       /\ pc' = "read"
       /\ UNCHANGED <<child, alive, files, temp_files, notebooks, issued>>]_vars

C13_Witness ==
  /\ Answered
  /\ OmitsRequired
  /\ Route(line) = "create_visualization"
  /\ Arguments(line).keys = {"data"}
  /\ response = Error("'{}'", 0, "chart_type")
  /\ DOMAIN notebooks # {}

\* The line is a tools/call request whose params is an object, being handled.
CallingTool ==
  /\ pc = "handle"
  /\ JsonLoads(line).raises = "none"
  /\ JsonLoads(line).type = "dict"
  /\ Method(line) = "tools/call"
  /\ Params(line).shape = "dict"

\* C14: a tools/call is answered "Unknown tool: <name>" exactly when its name
\* is not a name of the catalog tools/list returns, and a name of the catalog
\* is routed to the handler of that tool.
C14_UnknownToolIffNotListed ==
  [][CallingTool =>
       /\ (response' = Error("Unknown tool: {}", 0, ToolName(line)))
             <=> (ToolName(line) \notin CatalogNames)
       /\ ToolName(line) \in CatalogNames => Route(line) = ToolName(line)]_vars

C14_Witness ==
  /\ Answered
  /\ Method(line) = "tools/call"
  /\ Params(line).shape = "dict"
  /\ ToolName(line) = "bogus"
  /\ response = Error("Unknown tool: {}", 0, "bogus")
  /\ DOMAIN notebooks # {}

\* The line is a tools/list request, being handled.
ListingTools ==
  /\ pc = "handle"
  /\ JsonLoads(line).raises = "none"
  /\ JsonLoads(line).type = "dict"
  /\ Method(line) = "tools/list"

\* C15: every tools/list is answered with the same catalog, whatever the
\* store holds and whatever was answered before, and handling it leaves the
\* store, the files and the child processes as they were.
C15_ToolsListIdempotent ==
  [][ListingTools =>
       /\ response' = ListTools
       /\ nwritten' = nwritten + 1
       /\ UNCHANGED <<notebooks, issued, files, temp_files, child, alive,
                      exec_calls>>]_vars

C15_Witness ==
  /\ Answered
  /\ Method(line) = "tools/list"
  /\ response = ListTools
  /\ response.n = 6
  /\ nwritten > 1
  /\ DOMAIN notebooks # {}

\* C16: requests are handled one at a time in arrival order.  The K-th
\* response answers the K-th line; a line is read only when every line before
\* it has its response written and no child process is alive; at most one
\* child process is alive, and while it is, main waits for it.
C16_OneAtATimeInOrder ==
  /\ [](/\ answers = nwritten
        /\ alive <= 1
        /\ alive = 1 => pc = "wait")
  /\ [][nread' # nread => (nwritten = nread /\ alive = 0 /\ pc = "read")]_vars

C16_Witness ==
  /\ pc = "wait"
  /\ alive = 1
  /\ nread = 3
  /\ nwritten = 2
  /\ answers = 2
  /\ Route(line) = "create_visualization"

\* C17, as claimed: the loop ends, and it ends only when the stream has no
\* line left.
C17_EndsOnlyAtEndOfStream ==
  /\ <>(pc = "done")
  /\ [](pc = "done" => stdin = 0)

\* C17, amended: the loop ends, and it ends only on the end of the stream or
\* on an empty line, which may have lines after it.
C17_EndsAtEndOfStreamOrEmptyLine ==
  /\ <>[](pc = "done")
  /\ [](pc = "done" =>
          \/ exc = "EOFError" /\ stdin = 0
          \/ nread > 0 /\ line.syntax = "empty")

C17_Witness ==
  /\ pc = "done"
  /\ exc = "EOFError"
  /\ stdin = 0
  /\ nread = 3
  /\ nwritten = 3
  /\ child.state = "killed"

\* cells is what old was, with more cells after it or none.
IsPrefix(old, cells) ==
  /\ Len(old) <= Len(cells)
  /\ SubSeq(cells, 1, Len(old)) = old

\* C18: a step that changes the store ends a request answered with a content
\* object, and that request is a create_notebook call, which adds one record
\* and changes none, or an execute_cell call, which adds no record.  So
\* tools/list, list_notebooks, export_notebook, install_package and
\* create_visualization, and every request answered with an error, leave the
\* store as it was.
C18_OnlyCreateAndExecuteWrite ==
  [][notebooks' # notebooks =>
       /\ nwritten' = nwritten + 1
       /\ response'.kind = "content"
       /\ Method(line) = "tools/call"
       /\ ToolName(line) \in {"create_notebook", "execute_cell"}
       /\ ToolName(line) = "create_notebook" =>
            /\ Cardinality(DOMAIN notebooks') = Cardinality(DOMAIN notebooks) + 1
            /\ \A i \in DOMAIN notebooks :
                 i \in DOMAIN notebooks' /\ notebooks'[i] = notebooks[i]
       /\ ToolName(line) = "execute_cell" =>
            DOMAIN notebooks' = DOMAIN notebooks]_vars

C18_Witness ==
  /\ Answered
  /\ ToolName(line) = "create_visualization"
  /\ Arguments(line) = VizArgsWithId
  /\ response.kind = "content"
  /\ VizArgsWithId.notebook_id \in DOMAIN notebooks
  /\ notebooks[VizArgsWithId.notebook_id].cells = <<>>

\* C19: no step removes a notebook or changes its name or path, and the cells
\* a notebook has before a step are a prefix of those it has after it.
C19_StoreOnlyGrows ==
  [][\A i \in DOMAIN notebooks :
       /\ i \in DOMAIN notebooks'
       /\ notebooks'[i].name = notebooks[i].name
       /\ notebooks'[i].path = notebooks[i].path
       /\ IsPrefix(notebooks[i].cells, notebooks'[i].cells)]_vars

C19_Witness ==
  /\ Answered
  /\ \E i \in DOMAIN notebooks : Len(notebooks[i].cells) = 2

\* C20: an execute_cell call answered with a content object whose notebook_id
\* is in the store appends one cell, holding its code, to that notebook and
\* changes no other; one whose notebook_id is missing or not in the store has
\* run its code in a child process all the same, and leaves the store as it
\* was.
C20_AppendsToNamedNotebookOnly ==
  [][(/\ pc = "wait"
      /\ ToolName(line) = "execute_cell"
      /\ nwritten' = nwritten + 1
      /\ response'.kind = "content") =>
       LET notebook_id == GetNotebookId(Arguments(line)) IN
         /\ child.state = "running" /\ child'.state = "exited"
         /\ IF notebook_id \in DOMAIN notebooks
            THEN /\ DOMAIN notebooks' = DOMAIN notebooks
                 /\ \A i \in DOMAIN notebooks \ {notebook_id} :
                      notebooks'[i] = notebooks[i]
                 /\ Len(notebooks'[notebook_id].cells) =
                      Len(notebooks[notebook_id].cells) + 1
                 /\ IsPrefix(notebooks[notebook_id].cells,
                             notebooks'[notebook_id].cells)
                 /\ notebooks'[notebook_id].cells[Len(notebooks'[notebook_id].cells)].code
                      = Arguments(line).code.v
            ELSE notebooks' = notebooks]_vars

C20_Witness ==
  /\ Answered
  /\ ToolName(line) = "execute_cell"
  /\ response.kind = "content"
  /\ Resolves(GetNotebookId(Arguments(line)))
  /\ Len(notebooks[GetNotebookId(Arguments(line))].cells) = 1
  /\ \E i \in DOMAIN notebooks : notebooks[i].cells = <<>>

\* The step in which export_notebook has written its file and answers.
ExportsFile ==
  /\ Exporting
  /\ nwritten' = nwritten + 1
  /\ response'.kind = "content"

\* C21: in the file of either export form the sections are the notebook's
\* cells, one section per cell and in the order of the cells, which is the
\* ascending order of execution_count, and the number in the header of a
\* section is the execution_count of its cell.
C21_ExportInExecutionOrder ==
  [][ExportsFile =>
       LET cells == notebooks[Arguments(line).notebook_id].cells IN
         /\ Len(written') = Len(cells)
         /\ \A k \in 1..Len(cells) :
              /\ written'[k].header = cells[k].execution_count
              /\ written'[k].code = cells[k].code
              /\ k > 1 => cells[k - 1].execution_count < cells[k].execution_count]_vars

C21_Witness ==
  /\ Answered
  /\ Calls(line, "export_notebook")
  /\ Arguments(line).format = "html"
  /\ response.kind = "content"
  /\ Len(written) = 2
  /\ written[2].header = 2

\* The path p with only its last piece, the extension, replaced by ext.
WithExtension(p, ext) == [p EXCEPT ![Len(p)] = ext]

\* C22, as claimed: the file export_notebook writes, and names in its answer,
\* is at the notebook's stored path with only the final ".ipynb" replaced by
\* ".py" or ".html"; an ".ipynb" elsewhere in the path is kept.
C22_OnlyExtensionReplaced ==
  [][ExportsFile =>
       LET stored == notebooks[Arguments(line).notebook_id].path
           ext == IF Arguments(line).format = "py" THEN ".py" ELSE ".html"
       IN  /\ response'.parts = WithExtension(stored, ext)
           /\ files' = files \cup {WithExtension(stored, ext)}]_vars

\* A create_notebook call that carries a name is being handled.
Creating == pc = "handle" /\ Calls(line, "create_notebook")

\* The directory a create_notebook call names, "/tmp" if it names none.
DirOf(args) == IF "path" \in args.keys THEN args.path ELSE "/tmp"

\* What a create_notebook step does to the store, given the path the record
\* is to have: either the file at the answer's path is written and one record
\* is added, with that path, the given name and no cells, under the id of the
\* answer, or the answer is an error and neither store nor files change.
AllOrNothing(record_path) ==
  /\ nwritten' = nwritten + 1
  /\ \/ /\ response'.kind = "content"
        /\ response'.parts \in files'
        /\ response'.n \notin DOMAIN notebooks
        /\ DOMAIN notebooks' = DOMAIN notebooks \cup {response'.n}
        /\ \A i \in DOMAIN notebooks : notebooks'[i] = notebooks[i]
        /\ notebooks'[response'.n] =
             [name |-> Arguments(line).name, path |-> record_path,
              cells |-> <<>>]
        /\ response'.parts = record_path
     \/ /\ response'.kind = "error"
        /\ notebooks' = notebooks
        /\ files' = files

\* C23, as claimed: create_notebook adds a record exactly when it has written
\* the file; a failed write is answered with an error and leaves the store as
\* it was; a success adds one record, with no cells, the given name and the
\* path <dir>/<name>.ipynb, under the id of the answer.
C23_CreateAllOrNothing ==
  [][Creating =>
       AllOrNothing(<<DirOf(Arguments(line)), "/">> \o Arguments(line).name
                      \o <<".ipynb">>)]_vars

\* C23, amended: the same, with the path os.path.join gives: <dir>/<name>.ipynb
\* for a relative name, and <name>.ipynb alone for a name that is an absolute
\* path.
C23_CreateAllOrNothingJoined ==
  [][Creating =>
       AllOrNothing(IF Arguments(line).name[1] \in {"/", "/tmp", "/nodir"}
                    THEN Arguments(line).name \o <<".ipynb">>
                    ELSE <<DirOf(Arguments(line)), "/">> \o Arguments(line).name
                           \o <<".ipynb">>)]_vars

C23_Witness ==
  /\ Answered
  /\ Calls(line, "create_notebook")
  /\ Arguments(line).name = AbsName
  /\ response.kind = "content"
  /\ response.n \in DOMAIN notebooks
  /\ notebooks[response.n].path = <<"/tmp", "/", "x", ".ipynb">>
  /\ Cardinality(DOMAIN notebooks) = 2

\* An execute_cell call is under way: read, and not yet answered.
ExecutingCell ==
  /\ pc \in {"handle", "wait"}
  /\ Route(line) = "execute_cell"

\* C24: no step of an execute_cell call changes the store, except the step
\* that answers it with a content object.  So a call that ends in a timeout
\* or in a failure to launch the child is answered with the store, and the
\* cells of the notebook it names, as they were when the call was read.
C24_FailedRunAppendsNothing ==
  [][(ExecutingCell /\ ~(nwritten' = nwritten + 1 /\ response'.kind = "content"))
       => notebooks' = notebooks]_vars

C24_Witness ==
  /\ Answered
  /\ Calls(line, "execute_cell")
  /\ Resolves(GetNotebookId(Arguments(line)))
  /\ exc \in {"TimeoutExpired", "OSError"}
  /\ response.kind = "error"
  /\ child.state = "killed"
  /\ notebooks[GetNotebookId(Arguments(line))].cells = <<>>

\* C25, as claimed: two different records of the store never have the same
\* path, so that the file of one notebook is never written for another.
C25_DistinctPaths ==
  \A i, j \in DOMAIN notebooks :
    i # j => notebooks[i].path # notebooks[j].path

\* The values the catalog lists for the format of export_notebook.
ExportEnum ==
  UNION {Catalog[i].enum :
           i \in {j \in DOMAIN Catalog : Catalog[j].name = "export_notebook"}}

\* C26, as claimed: export_notebook, called for a notebook of the store,
\* answers "Export format ... not supported" for no format the catalog lists,
\* and for every format the catalog does not list.
C26_EnumMatchesHandler ==
  [][(Exporting /\ Arguments(line).notebook_id \in DOMAIN notebooks) =>
       /\ nwritten' = nwritten + 1
       /\ (response'.fmt = "Export format '{}' not supported")
             <=> (Arguments(line).format \notin ExportEnum)]_vars

====
